---- MODULE Spec2Model ----
(***************************************************************************)
(* A model of the air-quality query path of airq:                          *)
(*   GetQualityHandler._get_nearby_zipcodes                 (the search)   *)
(*   GetQualityHandler._get_air_quality_metrics_for_zipcodes (aggregator)  *)
(*   GetQualityHandler._get_recommendations                  (the ranker)  *)
(*   GetQualityHandler.handle                                (the handler) *)
(*   Client.maybe_notify                                     (the alerts)  *)
(* and of the client preferences:                                          *)
(*   IntegerPreference.__init__, validate             (integer preference) *)
(*   ClientPreference.__get__, register_overrides          (the overrides) *)
(***************************************************************************)
EXTENDS Integers, Sequences, FiniteSets, TLC

\* ------------------------------------------------------------------------
\* Bounds of the model
\* ------------------------------------------------------------------------

\* Rows of the zipcodes table in the search specification.
NumZips == 4

\* Number of geohash_bit_<i> columns (12 in the application's schema).
GeohashLen == 2

\* Zip code ids in the aggregator specification.
NumMetricZips == 2

\* Zip codes among the metrics handed to the ranker.
MaxMetrics == 4

\* Calls of Client.maybe_notify in one behaviour.
MaxNotifyCalls == 3

\* The largest integer among the bounds and the values of a preference.
MaxPrefValue == 3

\* register_overrides blocks nested in one another.
MaxBlocks == 2

\* ------------------------------------------------------------------------
\* Program constants
\* ------------------------------------------------------------------------

MAX_NEARBY_ZIPCODE_RADIUS_KM == 150

\* 200 in the source. The model keeps the cap one below the number of rows of
\* the largest table, so that a search can fill the candidate set and still
\* have matches left over, or end below the cap with neighbours found.
MAX_NUM_NEARBY_ZIPCODES == NumZips - 1

\* _get_recommendations: num_desired = 3
num_desired == 3

\* ------------------------------------------------------------------------
\* Value domains
\* ------------------------------------------------------------------------

GeohashChars == {"9", "c"}

\* Geohash strings of every length up to GeohashLen; the shorter ones are the
\* empty and the truncated (malformed) geohashes.
Geohashes == UNION {[1..n -> GeohashChars] : n \in 0..GeohashLen}

FullGeohashes == [1..GeohashLen -> GeohashChars]

\* Centroids lie on one meridian; a latitude is given in km along it.
Latitudes == {0, 150, 151}

ZipIds == 1..NumZips

None == 0

\* The zip code of the row with the given id.
ZipcodeOf(id) == 97200 + id

VARIABLES
    Zipcodes,       \* the zipcodes table: id -> row
    Cities,         \* the cities table: id -> name
    Metrics,        \* the metrics table: a set of readings
    zipcode,        \* the id of the target row (None: no such row)
    zipcodes_map,   \* _get_nearby_zipcodes: id -> distance
    gh,             \* _get_nearby_zipcodes: the current prefix
    pending,        \* ids matched by the current round and not yet considered
    pc,             \* position in _get_nearby_zipcodes
    queries,        \* number of prefix queries issued by the call
    aqi_metrics,    \* the aggregator's result: id -> AirQualityMetrics
    hpc,            \* position in the caller of the search
    rank_input,     \* the arguments of _get_recommendations
    message,        \* the list of lines returned
    request,        \* handle: [zipcode, details], the argument and self.details
    raw_zipcode,    \* handle: the zip code as the reply quotes it
    client,         \* self.client: the last requested zip code and the calls made
    alerts,         \* Client.maybe_notify: the client's alert fields, the events
                    \* table, the subscribed zip code's pm25 and the clock
    pref,           \* IntegerPreference: the bounds given to __init__, how the
                    \* construction ended and the last call of validate
    registry        \* ClientPreferencesRegistry: the overrides of the context,
                    \* the open register_overrides blocks, client.preferences
                    \* and the last read of a preference

db == <<Zipcodes, Cities, Metrics>>

\* What only Client.maybe_notify touches.
alertVars == <<alerts>>

\* What only the client preferences touch.
prefVars == <<pref, registry>>

searchVars == <<zipcode, zipcodes_map, gh, pending, pc, queries>>

handlerVars == <<rank_input, message, request, raw_zipcode, client>>

\* What the search does not touch.
outsideSearch == <<db, alertVars, prefVars, aqi_metrics, hpc, handlerVars>>

vars == <<db, alertVars, prefVars, searchVars, aqi_metrics, hpc, handlerVars>>

\* ------------------------------------------------------------------------
\* Helpers
\* ------------------------------------------------------------------------

Abs(x) == IF x < 0 THEN -x ELSE x

\* airq.lib.geo.haversine_distance: great-circle distance in km. All points
\* of the model share one longitude, where it is the difference in latitude.
haversine_distance(lon1, lat1, lon2, lat2) == Abs(lat1 - lat2)

\* The filters geohash_bit_i == c for i, c in enumerate(prefix, start=1).
\* A row whose geohash is too short has NULL in the missing columns.
MatchesPrefix(row, prefix) ==
    /\ Len(row.geohash) >= Len(prefix)
    /\ \A i \in 1..Len(prefix) : row.geohash[i] = prefix[i]

Distance(id, target) ==
    haversine_distance(Zipcodes[id].longitude, Zipcodes[id].latitude,
                       Zipcodes[target].longitude, Zipcodes[target].latitude)

\* A query without the prefix filters.
PrefixQuery_NoFilter(prefix, m) == {id \in DOMAIN Zipcodes : id \notin DOMAIN m}

\* query.all() of one round: the prefix filters and ~Zipcode.id.in_(keys).
PrefixQuery(prefix, m) ==
    {id \in DOMAIN Zipcodes :
        /\ MatchesPrefix(Zipcodes[id], prefix)
        /\ id \notin DOMAIN m}

\* A loop that takes the matches in the order of query.all(), unsorted.
Nearest_Any(ids, target) == ids

\* The entries sorted() may yield next: those of least distance (sorted is
\* stable, and the order of query.all() among equal distances is not fixed).
Nearest(ids, target) ==
    {id \in ids : \A o \in ids : Distance(id, target) <= Distance(o, target)}

\* ------------------------------------------------------------------------
\* _get_nearby_zipcodes
\* ------------------------------------------------------------------------

\* zipcodes_map = {}; zipcodes_map[zipcode.id] = 0; gh = list(zipcode.geohash)
SearchCall(z) ==
    /\ pc = "idle"
    /\ zipcode' = z
    /\ zipcodes_map' = (z :> 0)
    /\ gh' = Zipcodes[z].geohash
    /\ pending' = {}
    /\ queries' = 0
    /\ pc' = "while"
    /\ UNCHANGED outsideSearch

\* A loop that tests its condition only after the body (do ... while).
SearchQuery_NoTest ==
    /\ pc = "while"
    /\ pending' = PrefixQuery(gh, zipcodes_map)
    /\ queries' = queries + 1
    /\ pc' = "for"
    /\ UNCHANGED <<outsideSearch, zipcode, zipcodes_map, gh>>

\* while gh: build and run the query of this round
SearchQuery ==
    /\ pc = "while"
    /\ gh # <<>>
    /\ pending' = PrefixQuery(gh, zipcodes_map)
    /\ queries' = queries + 1
    /\ pc' = "for"
    /\ UNCHANGED <<outsideSearch, zipcode, zipcodes_map, gh>>

\* A loop body that adds every match.
WithinRadius_Any(distance) == TRUE

\* The radius test of the loop body.
WithinRadius(distance) == distance <= MAX_NEARBY_ZIPCODE_RADIUS_KM

\* A cap test that is off by one.
CapReached_Strict(m) == Cardinality(DOMAIN m) > MAX_NUM_NEARBY_ZIPCODES

\* The cap test of the loop body.
CapReached(m) == Cardinality(DOMAIN m) >= MAX_NUM_NEARBY_ZIPCODES

\* One iteration of the for loop over the sorted matches.
SearchConsider ==
    /\ pc = "for"
    /\ pending # {}
    /\ \E id \in Nearest(pending, zipcode) :
         LET distance == Distance(id, zipcode)
             m == IF WithinRadius(distance)
                  THEN (id :> distance) @@ zipcodes_map
                  ELSE zipcodes_map
         IN  /\ zipcodes_map' = m
             /\ pending' = pending \ {id}
             /\ pc' = IF CapReached(m) THEN "done" ELSE "for"
    /\ UNCHANGED <<outsideSearch, zipcode, gh, queries>>

\* A for loop that ends without shortening the prefix.
SearchPop_NoShrink ==
    /\ pc = "for"
    /\ pending = {}
    /\ pc' = "while"
    /\ UNCHANGED <<outsideSearch, zipcode, zipcodes_map, gh, pending, queries>>

\* The for loop is exhausted: gh.pop()
SearchPop ==
    /\ pc = "for"
    /\ pending = {}
    /\ gh' = SubSeq(gh, 1, Len(gh) - 1)
    /\ pc' = "while"
    /\ UNCHANGED <<outsideSearch, zipcode, zipcodes_map, pending, queries>>

\* while gh is false: return zipcodes_map
SearchReturn ==
    /\ pc = "while"
    /\ gh = <<>>
    /\ pc' = "done"
    /\ UNCHANGED <<outsideSearch, zipcode, zipcodes_map, gh, pending, queries>>

\* ------------------------------------------------------------------------
\* _get_air_quality_metrics_for_zipcodes
\* ------------------------------------------------------------------------

\* The subquery max_ts: func.max(Metric.timestamp) ... group_by(zipcode_id)
MaxTimestamp(id) ==
    LET ts == {r.timestamp : r \in {x \in Metrics : x.zipcode_id = id}}
    IN  CHOOSE t \in ts : \A o \in ts : o <= t

\* A join that keeps every reading of a zip code.
IsLatest_Any(r) == TRUE

\* Metric.join(subquery, zipcode_id == max_ts.zipcode_id and timestamp == max_ts)
IsLatest(r) == r.timestamp = MaxTimestamp(r.zipcode_id)

\* .join(Zipcode)
HasZipcodeRow(r) == r.zipcode_id \in DOMAIN Zipcodes

\* .join(City)
HasCityRow(r) == Zipcodes[r.zipcode_id].city_id \in DOMAIN Cities

\* A query without the filter on the candidate ids.
InCandidates_All(id, m) == TRUE

\* .filter(Zipcode.id.in_(zipcodes_map.keys()))
InCandidates(id, m) == id \in DOMAIN m

\* query.all()
JoinedRows(m) ==
    {r \in Metrics :
        /\ IsLatest(r)
        /\ HasZipcodeRow(r)
        /\ HasCityRow(r)
        /\ InCandidates(r.zipcode_id, m)}

\* AirQualityMetrics(zipcode=, city_name=, distance=zipcodes_map[zipcode_id], ...)
AirQualityMetrics(r, m) ==
    [zipcode      |-> Zipcodes[r.zipcode_id].zipcode,
     city_name    |-> Cities[Zipcodes[r.zipcode_id].city_id],
     distance     |-> m[r.zipcode_id],
     average_pm25 |-> r.value,
     num_readings |-> r.num_sensors]

\* The dicts the loop over query.all() can leave: one row per id, the last of
\* its rows in the order of the result, which is not fixed.
AggregatedFrom(rows, m) ==
    LET ids == {r.zipcode_id : r \in rows}
        picks == {p \in [ids -> rows] : \A id \in ids : p[id].zipcode_id = id}
    IN  {[id \in ids |-> AirQualityMetrics(p[id], m)] : p \in picks}

\* The whole function. zipcodes_map[zipcode_id] raises KeyError for an id
\* that is not a key of the candidate set.
Aggregate ==
    /\ hpc = "aggregate"
    /\ LET rows == JoinedRows(zipcodes_map)
       IN  IF \E r \in rows : r.zipcode_id \notin DOMAIN zipcodes_map
           THEN /\ aqi_metrics' = <<>>
                /\ hpc' = "raised"
           ELSE /\ aqi_metrics' \in AggregatedFrom(rows, zipcodes_map)
                /\ hpc' = "reply"
    /\ UNCHANGED <<db, prefVars, alertVars, searchVars, handlerVars>>

\* ------------------------------------------------------------------------
\* _get_recommendations
\* ------------------------------------------------------------------------

\* airq.lib.readings.Pm25.from_measurement: the rank of the band a
\* concentration falls in (Good 0 < Moderate 1 < ... < Hazardous 5).
Pm25Level(v) ==
    IF v < 12 THEN 0
    ELSE IF v < 35 THEN 1
    ELSE IF v < 55 THEN 2
    ELSE IF v < 150 THEN 3
    ELSE IF v < 250 THEN 4
    ELSE 5

\* AirQualityMetrics.pm25_level
pm25_level(m) == Pm25Level(m.average_pm25)

\* A key that puts the distance first: (m.distance, m.pm25_level)
KeyLess_DistanceFirst(a, b) ==
    \/ a.distance < b.distance
    \/ a.distance = b.distance /\ pm25_level(a) < pm25_level(b)

\* key=lambda m: (m.pm25_level, m.distance), compared as tuples
KeyLess(a, b) ==
    \/ pm25_level(a) < pm25_level(b)
    \/ pm25_level(a) = pm25_level(b) /\ a.distance < b.distance

\* sorted() is stable: an element goes after those whose key is not greater.
SortedInsert(sorted, m) ==
    LET k == Cardinality({i \in 1..Len(sorted) : ~KeyLess(m, sorted[i])})
    IN  SubSeq(sorted, 1, k) \o <<m>> \o SubSeq(sorted, k + 1, Len(sorted))

RECURSIVE SortedByKey(_)
SortedByKey(seq) ==
    IF seq = <<>>
    THEN <<>>
    ELSE SortedInsert(SortedByKey(SubSeq(seq, 1, Len(seq) - 1)), seq[Len(seq)])

\* A filter that keeps the target's own metrics.
IsCandidate_WithTarget(m, target, pm25_cutoff) == pm25_level(m) < pm25_cutoff

\* m.zipcode != zipcode and m.pm25_level < pm25_cutoff
IsCandidate(m, target, pm25_cutoff) ==
    /\ m.zipcode # target
    /\ pm25_level(m) < pm25_cutoff

\* [:num_desired]
Truncated(seq) ==
    SubSeq(seq, 1, IF Len(seq) < num_desired THEN Len(seq) ELSE num_desired)

lower_pm25_metrics(metrics, target, pm25_cutoff) ==
    Truncated(SortedByKey(
        SelectSeq(metrics, LAMBDA m : IsCandidate(m, target, pm25_cutoff))))

\* A line of a message: its format string and the values put into it
\* (-1 for a value the line does not show).
Line(kind, city_name, zip, level, pm25, num) ==
    [kind |-> kind, city_name |-> city_name, zipcode |-> zip, display |-> level,
     average_pm25 |-> pm25, num_readings |-> num]

Text(kind) == Line(kind, "", -1, -1, -1, -1)

HeaderLine == Text("Try these other places near you for better air quality:")

\* " - {} {}: {}".format(m.city_name, m.zipcode, m.pm25_level.display)
PlaceLine(m) == Line(" - {} {}: {}", m.city_name, m.zipcode, pm25_level(m), -1, -1)

\* The whole function: the list of lines it returns.
GetRecommendations(metrics, target, pm25_cutoff) ==
    LET lower == lower_pm25_metrics(metrics, target, pm25_cutoff)
    IN  IF lower # <<>>
        THEN <<HeaderLine>> \o [i \in 1..Len(lower) |-> PlaceLine(lower[i])]
        ELSE <<>>

\* The orders in which the values of a dict keyed by ids may be listed.
Orders(ids) ==
    {o \in [1..Cardinality(ids) -> ids] : \A i, j \in DOMAIN o : o[i] = o[j] => i = j}

\* A call of the ranker on the arguments at hand.
Recommend ==
    /\ hpc = "recommend"
    /\ message' = GetRecommendations(rank_input.metrics, rank_input.zipcode,
                                     rank_input.pm25_cutoff)
    /\ hpc' = "recommended"
    /\ UNCHANGED <<db, prefVars, alertVars, searchVars, aqi_metrics, rank_input, request, raw_zipcode, client>>

\* ------------------------------------------------------------------------
\* handle
\* ------------------------------------------------------------------------

\* No request is being handled.
NoRequest == [zipcode |-> None, details |-> FALSE]

NewClient(last) ==
    [last_requested_zipcode |-> last, subscriptions |-> <<>>, logged |-> <<>>]

NoRankInput == [metrics |-> <<>>, zipcode |-> None, pm25_cutoff |-> 0]

HandlerAtRest ==
    /\ request = NoRequest
    /\ raw_zipcode = None
    /\ client = NewClient(None)

\* Zipcode.get_by_zipcode: the id of the row with that zip code, if any.
get_by_zipcode(z) ==
    IF \E id \in DOMAIN Zipcodes : Zipcodes[id].zipcode = z
    THEN CHOOSE id \in DOMAIN Zipcodes : Zipcodes[id].zipcode = z
    ELSE None

NeverUsedLine ==
    Text("Looks like you haven't use hazebot before! Please text us a zipcode and we'll send you the air quality")

OopsLine(raw) ==
    Line("Oops! We couldn't determine the air quality for {}. Please try a different zip code.",
         "", raw, -1, -1, -1)

\* "{} {} is {}{}.": the AQI figure of the line is not modelled.
SummaryLine(t, z) ==
    Line("{} {} is {}{}.", t.city_name, Zipcodes[z].zipcode, pm25_level(t), -1, -1)

AlertLines ==
    <<Text(""),
      Text("We'll alert you when the air quality changes category."),
      Text("Reply U to stop this alert, M for menu.")>>

DescriptionLine(t) == Line("pm25_level.description", "", -1, pm25_level(t), -1, -1)

AverageLine(t, z) ==
    Line("Average PM2.5 from {} sensor(s) near {} is {} ug/m3.", "",
         Zipcodes[z].zipcode, -1, t.average_pm25, t.num_readings)

\* Lines 60-76: resolve the zip code, then start _get_air_quality_metrics.
HandleCall(arg, details) ==
    /\ hpc = "idle"
    /\ request' = [zipcode |-> arg, details |-> details]
    /\ LET z == IF arg = None
                THEN client.last_requested_zipcode
                ELSE get_by_zipcode(arg)
           raw == IF arg # None THEN arg
                  ELSE IF z # None THEN Zipcodes[z].zipcode ELSE None
       IN  /\ zipcode' = z
           /\ raw_zipcode' = raw
           /\ IF arg = None /\ z = None
              THEN \* never used before
                   /\ message' = <<NeverUsedLine>>
                   /\ hpc' = "returned"
                   /\ UNCHANGED <<zipcodes_map, pc>>
              ELSE IF z = None
              THEN \* if zipcode: is skipped, target_metrics stays None
                   /\ message' = <<OopsLine(raw)>>
                   /\ hpc' = "returned"
                   /\ UNCHANGED <<zipcodes_map, pc>>
              ELSE IF details
              THEN \* zipcodes_map = self._get_nearby_zipcodes(zipcode)
                   /\ hpc' = "search"
                   /\ pc' = "idle"
                   /\ UNCHANGED <<zipcodes_map, message>>
              ELSE \* zipcodes_map = {}; zipcodes_map[zipcode.id] = 0
                   /\ zipcodes_map' = (z :> 0)
                   /\ hpc' = "aggregate"
                   /\ UNCHANGED <<pc, message>>
    /\ UNCHANGED <<db, prefVars, alertVars, gh, pending, queries, aqi_metrics, rank_input, client>>

\* _get_air_quality_metrics calls the search for the resolved zip code.
HandleSearch ==
    /\ hpc = "search"
    /\ SearchCall(zipcode)

\* The search has returned: _get_air_quality_metrics_for_zipcodes is next.
SearchDone ==
    /\ hpc = "search"
    /\ pc = "done"
    /\ hpc' = "aggregate"
    /\ UNCHANGED <<db, prefVars, alertVars, searchVars, aqi_metrics, handlerVars>>

\* not (target_metrics and zipcode), with target_metrics = aqi_metrics.get(zipcode.id)
CouldNotDetermine == zipcode = None \/ zipcode \notin DOMAIN aqi_metrics

\* A handler that logs the request before it looks at the metrics.
ReplyOops_Logged ==
    /\ hpc = "reply"
    /\ CouldNotDetermine
    /\ message' = <<OopsLine(raw_zipcode)>>
    /\ client' = [client EXCEPT !.logged = Append(@, zipcode)]
    /\ hpc' = "returned"
    /\ UNCHANGED <<db, prefVars, alertVars, searchVars, aqi_metrics, rank_input, request, raw_zipcode>>

\* Lines 79-82: no metrics for the target.
ReplyOops ==
    /\ hpc = "reply"
    /\ CouldNotDetermine
    /\ message' = <<OopsLine(raw_zipcode)>>
    /\ hpc' = "returned"
    /\ UNCHANGED <<db, prefVars, alertVars, searchVars, aqi_metrics, rank_input, request, raw_zipcode, client>>

\* Lines 87-102 and 118: the short reply. update_subscription answers whether
\* it changed the subscription.
ReplySummary ==
    /\ hpc = "reply"
    /\ ~CouldNotDetermine
    /\ ~request.details
    /\ LET t == aqi_metrics[zipcode]
       IN  \E was_updated \in BOOLEAN :
             /\ message' = <<SummaryLine(t, zipcode)>>
                              \o (IF was_updated THEN AlertLines ELSE <<>>)
             /\ client' = [client EXCEPT
                    !.subscriptions = Append(@, [zipcode_id |-> zipcode,
                                                 pm25 |-> t.average_pm25]),
                    !.logged = Append(@, zipcode)]
    /\ hpc' = "returned"
    /\ UNCHANGED <<db, prefVars, alertVars, searchVars, aqi_metrics, rank_input, request, raw_zipcode>>

\* Lines 103-118: the detailed reply. aqi_metrics.values() lists the metrics
\* in the order of the aggregator's rows, which is not fixed.
ReplyDetails ==
    /\ hpc = "reply"
    /\ ~CouldNotDetermine
    /\ request.details
    /\ LET t == aqi_metrics[zipcode]
       IN  \E order \in Orders(DOMAIN aqi_metrics) :
             LET args == [metrics |-> [i \in DOMAIN order |-> aqi_metrics[order[i]]],
                          zipcode |-> t.zipcode,
                          pm25_cutoff |-> pm25_level(t)]
                 recommendations ==
                     GetRecommendations(args.metrics, args.zipcode, args.pm25_cutoff)
             IN  /\ rank_input' = args
                 /\ message' = <<DescriptionLine(t), Text("")>>
                                  \o (IF recommendations # <<>>
                                      THEN recommendations \o <<Text("")>>
                                      ELSE <<>>)
                                  \o <<AverageLine(t, zipcode)>>
    /\ client' = [client EXCEPT !.logged = Append(@, zipcode)]
    /\ hpc' = "returned"
    /\ UNCHANGED <<db, prefVars, alertVars, searchVars, aqi_metrics, request, raw_zipcode>>

\* ------------------------------------------------------------------------
\* Client.maybe_notify
\* ------------------------------------------------------------------------

\* The alert fields of a client, the events table, the pm25 of the client's
\* zip code, the clock (a timestamp and the local time of day), and the
\* value and the number of the calls of maybe_notify so far.
AlertState(last_pm25, pm25) ==
    [last_pm25 |-> last_pm25, num_alerts_sent |-> 0, last_alert_sent_at |-> 0,
     events |-> <<>>, pm25 |-> pm25, timestamp |-> 0, hour |-> 0, minute |-> 0,
     result |-> FALSE, calls |-> 0]

NoAlerts == AlertState(0, 0)

\* A send window that still holds at 9 PM.
InSendWindow_Until9Included(hour) == 8 <= hour /\ hour <= 21

\* Alerts go out from 8 AM to 9 PM local time.
InSendWindow(hour) == 8 <= hour /\ hour < 21

\* "We'll alert you when the air quality changes category."
CategoryChanged(last_pm25, pm25) == Pm25Level(last_pm25) # Pm25Level(pm25)

AlertEvent(zip, pm25) == [type |-> "ALERT", zipcode |-> zip, pm25 |-> pm25]

\* One call of maybe_notify at the given time.
MaybeNotify(timestamp, hour, minute) ==
    /\ hpc = "alerts"
    /\ alerts.calls < MaxNotifyCalls
    /\ LET now == [alerts EXCEPT !.timestamp = timestamp, !.hour = hour,
                                 !.minute = minute, !.calls = @ + 1]
       IN  IF InSendWindow(hour) /\ CategoryChanged(alerts.last_pm25, alerts.pm25)
           THEN alerts' = [now EXCEPT
                    !.result = TRUE,
                    !.num_alerts_sent = @ + 1,
                    !.last_alert_sent_at = timestamp,
                    !.last_pm25 = alerts.pm25,
                    !.events = Append(@, AlertEvent(ZipcodeOf(1), alerts.pm25))]
           ELSE alerts' = [now EXCEPT !.result = FALSE]
    /\ UNCHANGED <<db, prefVars, searchVars, aqi_metrics, hpc, handlerVars>>

\* A new reading changes the pm25 of the client's zip code.
ZipcodePm25Changes(pm25) ==
    /\ hpc = "alerts"
    /\ alerts.calls < MaxNotifyCalls
    /\ pm25 # alerts.pm25
    /\ alerts' = [alerts EXCEPT !.pm25 = pm25]
    /\ UNCHANGED <<db, prefVars, searchVars, aqi_metrics, hpc, handlerVars>>

\* ------------------------------------------------------------------------
\* IntegerPreference
\* ------------------------------------------------------------------------

\* Python values: None, an int, or a str that int() does not accept.
PyNone == [kind |-> "None", value |-> 0]

PyInt(v) == [kind |-> "int", value |-> v]

PyStr == [kind |-> "str", value |-> 0]

\* bool(x) of such a value: None and 0 are false.
Truthy(x) == x.kind = "int" /\ x.value # 0

\* What a call has done: returned a value or raised.
Returned(v) == [outcome |-> "returned", value |-> v]

Raised(exception) == [outcome |-> exception, value |-> 0]

NotCalled == [outcome |-> "none", value |-> 0]

\* An IntegerPreference: self._min_value, self._max_value, self.default, how
\* __init__ ended, and the argument and the result of the last validate.
IntegerPreference(min_value, max_value, default) ==
    [_min_value |-> min_value, _max_value |-> max_value, default |-> default,
     init |-> NotCalled, arg |-> PyNone, validated |-> NotCalled]

NoPreference == IntegerPreference(PyNone, PyNone, 0)

\* if self._max_value >= self._max_value
InvalidMinMax(min_value, max_value) == max_value.value >= max_value.value

\* IntegerPreference.__init__, after the assignments: the test of the bounds.
IntegerPreference__init__ ==
    /\ hpc = "preference"
    /\ pref.init = NotCalled
    /\ pref' = [pref EXCEPT !.init =
                    IF /\ Truthy(pref._min_value) /\ Truthy(pref._max_value)
                       /\ InvalidMinMax(pref._min_value, pref._max_value)
                    THEN Raised("RuntimeError")
                    ELSE Returned(0)]
    /\ UNCHANGED <<db, alertVars, searchVars, aqi_metrics, hpc, handlerVars, registry>>

\* IntegerPreference.validate
validate(p, value) ==
    IF value.kind # "int"
    THEN Raised("InvalidPrefValue")
    ELSE IF p._min_value # PyNone /\ value.value < p._min_value.value
    THEN Raised("InvalidPrefValue")
    ELSE IF p._max_value # PyNone /\ value.value > p._max_value.value
    THEN Raised("InvalidPrefValue")
    ELSE Returned(value.value)

\* A call of validate on a preference that was constructed.
Validate(value) ==
    /\ hpc = "preference"
    /\ pref.init = Returned(0)
    /\ pref' = [pref EXCEPT !.arg = value, !.validated = validate(pref, value)]
    /\ UNCHANGED <<db, alertVars, searchVars, aqi_metrics, hpc, handlerVars, registry>>

\* ------------------------------------------------------------------------
\* ClientPreferencesRegistry and ClientPreference.__get__
\* ------------------------------------------------------------------------

\* The names under which the preferences of the client are registered.
PrefNames == {"alert_frequency", "alert_threshold"}

\* ClientPreferencesRegistry._prefs: one preference with a lower bound and
\* one with an upper bound.
_prefs ==
    [name \in PrefNames |->
        IF name = "alert_frequency"
        THEN IntegerPreference(PyInt(0), PyNone, 1)
        ELSE IntegerPreference(PyNone, PyInt(2), 1)]

\* The registry's context, the open blocks (the overrides each was entered
\* with), how the last block exited, client.preferences, and the last read
\* of a preference since the overrides changed.
Registry(preferences) ==
    [_overrides |-> <<>>, blocks |-> <<>>, exited |-> "none",
     preferences |-> preferences, name |-> "", got |-> NotCalled]

NoRegistry == Registry([name \in PrefNames |-> PyNone])

\* A finally clause that removes the overrides of its own block only.
clear_OwnOnly(current_overrides, own) ==
    [name \in DOMAIN current_overrides \ DOMAIN own |-> current_overrides[name]]

\* finally: current_overrides.clear()
clear(current_overrides, own) == <<>>

\* get_override: cls._get_overrides().get(name)
get_override(name) ==
    IF name \in DOMAIN registry._overrides
    THEN PyInt(registry._overrides[name])
    ELSE PyNone

\* ClientPreference.__get__ on a client
__get__(name) ==
    LET override == get_override(name)
        value == registry.preferences[name]
    IN  IF override # PyNone
        THEN Returned(override.value)
        ELSE IF value = PyNone
        THEN Returned(_prefs[name].default)
        ELSE validate(_prefs[name], value)

\* register_overrides up to the yield: the block is entered.
RegisterOverrides(overrides) ==
    /\ hpc = "overrides"
    /\ Len(registry.blocks) < MaxBlocks
    /\ registry' = [registry EXCEPT
                       !._overrides = overrides @@ @,
                       !.blocks = Append(@, overrides),
                       !.name = "",
                       !.got = NotCalled]
    /\ UNCHANGED <<db, alertVars, searchVars, aqi_metrics, hpc, handlerVars, pref>>

\* The innermost block exits, normally or by an exception: the finally clause.
ExitOverrides(exception) ==
    /\ hpc = "overrides"
    /\ registry.blocks # <<>>
    /\ LET n == Len(registry.blocks)
       IN  registry' = [registry EXCEPT
                          !._overrides = clear(@, registry.blocks[n]),
                          !.blocks = SubSeq(@, 1, n - 1),
                          !.exited = IF exception THEN "exception" ELSE "normally",
                          !.name = "",
                          !.got = NotCalled]
    /\ UNCHANGED <<db, alertVars, searchVars, aqi_metrics, hpc, handlerVars, pref>>

\* A read of the preference on the client.
Get(name) ==
    /\ hpc = "overrides"
    /\ registry' = [registry EXCEPT !.name = name, !.got = __get__(name)]
    /\ UNCHANGED <<db, alertVars, searchVars, aqi_metrics, hpc, handlerVars, pref>>

\* ------------------------------------------------------------------------
\* Specification of the search
\* ------------------------------------------------------------------------

\* The columns of a row that the search does not read.
SearchRow(id, g, lat) ==
    [geohash |-> g, latitude |-> lat, longitude |-> 0,
     zipcode |-> ZipcodeOf(id), city_id |-> 1]

\* Rank of a row, used to list the rows 2..NumZips of a table in one order.
RowRank(row) ==
    LET code(i) == IF row.geohash[i] = "9" THEN 0 ELSE 1
        G[i \in 0..Len(row.geohash)] ==
            IF i = 0 THEN 0 ELSE 2 * G[i - 1] + code(i)
    IN  G[Len(row.geohash)] * 1000 + row.latitude

\* The target: a geohash of any length, empty and truncated ones included,
\* written with one character (the search only compares characters, so the
\* other geohashes of the same length behave alike), at the origin of the
\* meridian.
TargetRows ==
    {[geohash |-> g, latitude |-> 0] :
        g \in {h \in Geohashes : \A i \in DOMAIN h : h[i] = "9"}}

\* The other rows carry full geohashes.
OtherRows == [geohash : FullGeohashes, latitude : Latitudes]

\* The lists of n other rows, in one order.
SortedRows(n) ==
    {rows \in [1..n -> OtherRows] :
        \A i \in 1..(n - 1) : RowRank(rows[i]) <= RowRank(rows[i + 1])}

\* The table of the search specification, up to a renaming of the ids: the
\* target is row 1.
SearchTable(target, rows) == <<target>> \o rows

SearchTargets == {1}

Init ==
    /\ \E n \in 0..(NumZips - 1) :
          \E target \in TargetRows, rows \in SortedRows(n) :
             LET t == SearchTable(target, rows)
             IN  Zipcodes = [id \in DOMAIN t |->
                               SearchRow(id, t[id].geohash, t[id].latitude)]
    /\ Cities = (1 :> "Portland")
    /\ Metrics = {}
    /\ zipcode = None
    /\ zipcodes_map = <<>>
    /\ gh = <<>>
    /\ pending = {}
    /\ pc = "idle"
    /\ queries = 0
    /\ aqi_metrics = <<>>
    /\ hpc = "search"
    /\ rank_input = NoRankInput
    /\ message = <<>>
    /\ HandlerAtRest
    /\ alerts = NoAlerts
    /\ pref = NoPreference
    /\ registry = NoRegistry

Next ==
    \/ \E z \in SearchTargets : SearchCall(z)
    \/ SearchQuery
    \/ SearchConsider
    \/ SearchPop
    \/ SearchReturn

Spec == Init /\ [][Next]_vars

\* ------------------------------------------------------------------------
\* Specification of the aggregator
\* ------------------------------------------------------------------------

MetricZipIds == 1..NumMetricZips

\* The readings a zip code may have: an old one and two of the latest time.
ReadingKinds ==
    {[timestamp |-> 1, value |-> 5,  num_sensors |-> 1],
     [timestamp |-> 2, value |-> 40, num_sensors |-> 2],
     [timestamp |-> 2, value |-> 20, num_sensors |-> 3]}

Reading(id, k) ==
    [zipcode_id |-> id, timestamp |-> k.timestamp, value |-> k.value,
     num_sensors |-> k.num_sensors]

MetricRow(id, city) ==
    [geohash |-> <<>>, latitude |-> 0, longitude |-> 0,
     zipcode |-> ZipcodeOf(id), city_id |-> city]

CandidateDistances == {0, 5}

\* Any candidate set, any readings, and zip codes with a row and a city, with
\* a row and no city, or with no row.
InitMetrics ==
    /\ \E withRow \in SUBSET MetricZipIds :
          \E city \in [withRow -> {None, 1}] :
             Zipcodes = [id \in withRow |-> MetricRow(id, city[id])]
    /\ Cities = (1 :> "Portland")
    /\ \E kinds \in [MetricZipIds -> SUBSET ReadingKinds] :
          Metrics = UNION {{Reading(id, k) : k \in kinds[id]} : id \in MetricZipIds}
    /\ zipcode = None
    /\ \E ids \in SUBSET MetricZipIds : zipcodes_map \in [ids -> CandidateDistances]
    /\ gh = <<>>
    /\ pending = {}
    /\ pc = "done"
    /\ queries = 0
    /\ aqi_metrics = <<>>
    /\ hpc = "aggregate"
    /\ rank_input = NoRankInput
    /\ message = <<>>
    /\ HandlerAtRest
    /\ alerts = NoAlerts
    /\ pref = NoPreference
    /\ registry = NoRegistry

NextMetrics == Aggregate

SpecMetrics == InitMetrics /\ [][NextMetrics]_vars

\* ------------------------------------------------------------------------
\* Specification of the ranker
\* ------------------------------------------------------------------------

RankedIds == 1..MaxMetrics

\* The concentration and the distance of a neighbourhood metric.
MetricKinds ==
    {[average_pm25 |-> 5,  distance |-> 1],
     [average_pm25 |-> 5,  distance |-> 2],
     [average_pm25 |-> 20, distance |-> 1],
     [average_pm25 |-> 40, distance |-> 1]}

RankedMetric(id, k) ==
    [zipcode |-> ZipcodeOf(id), city_name |-> "Portland", distance |-> k.distance,
     average_pm25 |-> k.average_pm25, num_readings |-> 1]

\* Any metrics of distinct zip codes in any order, a cutoff, and a target
\* that is zip code 1 or a zip code that is not among the metrics.
InitRank ==
    /\ Zipcodes = <<>>
    /\ Cities = (1 :> "Portland")
    /\ Metrics = {}
    /\ zipcode = None
    /\ zipcodes_map = <<>>
    /\ gh = <<>>
    /\ pending = {}
    /\ pc = "done"
    /\ queries = 0
    /\ aqi_metrics = <<>>
    /\ hpc = "recommend"
    /\ \E ids \in SUBSET RankedIds :
          \E order \in Orders(ids), kinds \in [ids -> MetricKinds] :
             \E cutoff \in {Pm25Level(20), Pm25Level(40)}, target \in {0, 1} :
                rank_input =
                    [metrics |-> [i \in 1..Cardinality(ids) |->
                                     RankedMetric(order[i], kinds[order[i]])],
                     zipcode |-> ZipcodeOf(target),
                     pm25_cutoff |-> cutoff]
    /\ message = <<>>
    /\ HandlerAtRest
    /\ alerts = NoAlerts
    /\ pref = NoPreference
    /\ registry = NoRegistry

NextRank == Recommend

SpecRank == InitRank /\ [][NextRank]_vars

\* ------------------------------------------------------------------------
\* Specification of the handler
\* ------------------------------------------------------------------------

\* Three zip codes: 1 and 2 share a geohash and lie 150 km apart, 3 shares
\* no geohash character with them and lies 151 km from 1.
HandledZipcodes ==
    (1 :> [geohash |-> <<"9", "c">>, latitude |-> 0, longitude |-> 0,
           zipcode |-> ZipcodeOf(1), city_id |-> 1])
    @@ (2 :> [geohash |-> <<"9", "c">>, latitude |-> 150, longitude |-> 0,
              zipcode |-> ZipcodeOf(2), city_id |-> 1])
    @@ (3 :> [geohash |-> <<"c", "9">>, latitude |-> 151, longitude |-> 0,
              zipcode |-> ZipcodeOf(3), city_id |-> 1])

\* A zip code that no row carries.
UnknownZipcode == ZipcodeOf(0)

RequestedZipcodes ==
    {None, UnknownZipcode} \cup {HandledZipcodes[id].zipcode : id \in DOMAIN HandledZipcodes}

\* Any readings for the three zip codes, and a client that has or has not
\* asked for a zip code before.
InitHandle ==
    /\ Zipcodes = HandledZipcodes
    /\ Cities = (1 :> "Portland")
    /\ \E kinds \in [DOMAIN HandledZipcodes -> SUBSET ReadingKinds] :
          Metrics = UNION {{Reading(id, k) : k \in kinds[id]} : id \in DOMAIN HandledZipcodes}
    /\ zipcode = None
    /\ zipcodes_map = <<>>
    /\ gh = <<>>
    /\ pending = {}
    /\ pc = "idle"
    /\ queries = 0
    /\ aqi_metrics = <<>>
    /\ hpc = "idle"
    /\ rank_input = NoRankInput
    /\ message = <<>>
    /\ request = NoRequest
    /\ raw_zipcode = None
    /\ \E last \in {None, 1} : client = NewClient(last)
    /\ alerts = NoAlerts
    /\ pref = NoPreference
    /\ registry = NoRegistry

NextHandle ==
    \/ \E arg \in RequestedZipcodes, details \in BOOLEAN : HandleCall(arg, details)
    \/ HandleSearch
    \/ SearchQuery
    \/ SearchConsider
    \/ SearchPop
    \/ SearchReturn
    \/ SearchDone
    \/ Aggregate
    \/ ReplyOops
    \/ ReplySummary
    \/ ReplyDetails

SpecHandle == InitHandle /\ [][NextHandle]_vars

\* ------------------------------------------------------------------------
\* Specification of the alerts
\* ------------------------------------------------------------------------

\* Concentrations: 5 and 7 lie in one category, 20 and 40 in two others.
Pm25Values == {5, 7, 20, 40}

\* Local times around the two ends of the send window.
ClockHours == {7, 8, 20, 21}

ClockMinutes == {0, 59}

InitAlerts ==
    /\ Zipcodes = <<>>
    /\ Cities = (1 :> "Portland")
    /\ Metrics = {}
    /\ zipcode = None
    /\ zipcodes_map = <<>>
    /\ gh = <<>>
    /\ pending = {}
    /\ pc = "done"
    /\ queries = 0
    /\ aqi_metrics = <<>>
    /\ hpc = "alerts"
    /\ rank_input = NoRankInput
    /\ message = <<>>
    /\ request = NoRequest
    /\ raw_zipcode = None
    /\ client = NewClient(None)
    /\ \E last_pm25 \in Pm25Values, pm25 \in Pm25Values :
          alerts = AlertState(last_pm25, pm25)
    /\ pref = NoPreference
    /\ registry = NoRegistry

NextAlerts ==
    \/ \E hour \in ClockHours, minute \in ClockMinutes :
          MaybeNotify(1000 + alerts.calls, hour, minute)
    \/ \E pm25 \in Pm25Values : ZipcodePm25Changes(pm25)

SpecAlerts == InitAlerts /\ [][NextAlerts]_vars

\* ------------------------------------------------------------------------
\* Specification of the integer preference
\* ------------------------------------------------------------------------

PrefInts == -1..MaxPrefValue

\* An Optional[int] argument.
OptionalInts == {PyNone} \cup {PyInt(v) : v \in PrefInts}

\* A raw value handed to validate.
RawValues == OptionalInts \cup {PyStr}

\* Any bounds, given or not, in any order.
InitPreference ==
    /\ Zipcodes = <<>>
    /\ Cities = (1 :> "Portland")
    /\ Metrics = {}
    /\ zipcode = None
    /\ zipcodes_map = <<>>
    /\ gh = <<>>
    /\ pending = {}
    /\ pc = "done"
    /\ queries = 0
    /\ aqi_metrics = <<>>
    /\ hpc = "preference"
    /\ rank_input = NoRankInput
    /\ message = <<>>
    /\ HandlerAtRest
    /\ alerts = NoAlerts
    /\ \E min_value \in OptionalInts, max_value \in OptionalInts :
          pref = IntegerPreference(min_value, max_value, 0)
    /\ registry = NoRegistry

NextPreference ==
    \/ IntegerPreference__init__
    \/ \E value \in RawValues : Validate(value)

SpecPreference == InitPreference /\ [][NextPreference]_vars

\* ------------------------------------------------------------------------
\* Specification of the overrides
\* ------------------------------------------------------------------------

\* 0 is a value that is false and is not None.
OverrideValues == {0, 3}

\* The mappings handed to register_overrides.
Overrides ==
    UNION {[names -> OverrideValues] : names \in SUBSET PrefNames \ {{}}}

\* Stored values: none, one below the lower bound, one within both bounds.
StoredValues == {PyNone, PyInt(-1), PyInt(2)}

InitOverrides ==
    /\ Zipcodes = <<>>
    /\ Cities = (1 :> "Portland")
    /\ Metrics = {}
    /\ zipcode = None
    /\ zipcodes_map = <<>>
    /\ gh = <<>>
    /\ pending = {}
    /\ pc = "done"
    /\ queries = 0
    /\ aqi_metrics = <<>>
    /\ hpc = "overrides"
    /\ rank_input = NoRankInput
    /\ message = <<>>
    /\ HandlerAtRest
    /\ alerts = NoAlerts
    /\ pref = NoPreference
    /\ \E preferences \in [PrefNames -> StoredValues] :
          registry = Registry(preferences)

NextOverrides ==
    \/ \E overrides \in Overrides : RegisterOverrides(overrides)
    \/ \E exception \in BOOLEAN : ExitOverrides(exception)
    \/ \E name \in PrefNames : Get(name)

SpecOverrides == InitOverrides /\ [][NextOverrides]_vars

\* ------------------------------------------------------------------------
\* Properties of the search
\* ------------------------------------------------------------------------

Searching == pc \in {"while", "for", "done"}

Size(m) == Cardinality(DOMAIN m)

TargetGeohash == Zipcodes[zipcode].geohash

\* C1: at every point of the search and on return the target is in the map
\* with distance 0, and every other entry is at most
\* MAX_NEARBY_ZIPCODE_RADIUS_KM away (and holds its distance to the target).
C1_TargetAndRadius ==
    Searching =>
        /\ zipcode \in DOMAIN zipcodes_map
        /\ zipcodes_map[zipcode] = 0
        /\ \A id \in DOMAIN zipcodes_map \ {zipcode} :
              /\ zipcodes_map[id] <= MAX_NEARBY_ZIPCODE_RADIUS_KM
              /\ zipcodes_map[id] = Distance(id, zipcode)

\* A search has returned a neighbour and has left out a row that matched the
\* first prefix character but lies beyond the radius.
C1_Witness ==
    /\ pc = "done"
    /\ Size(zipcodes_map) >= 2
    /\ TargetGeohash # <<>>
    /\ \E id \in DOMAIN Zipcodes \ DOMAIN zipcodes_map :
          /\ MatchesPrefix(Zipcodes[id], SubSeq(TargetGeohash, 1, 1))
          /\ Distance(id, zipcode) > MAX_NEARBY_ZIPCODE_RADIUS_KM

\* C2: the candidate set never holds more than MAX_NUM_NEARBY_ZIPCODES
\* entries, during the search and on return.
C2_SizeCapped ==
    Searching => Size(zipcodes_map) <= MAX_NUM_NEARBY_ZIPCODES

\* A search was ended by the cap while matches of the round were left over.
C2_Witness ==
    /\ pc = "done"
    /\ Size(zipcodes_map) = MAX_NUM_NEARBY_ZIPCODES
    /\ \E id \in pending : Distance(id, zipcode) <= MAX_NEARBY_ZIPCODE_RADIUS_KM

\* C7 as stated: a target whose geohash is empty or too short causes no
\* prefix query and gets exactly {target: 0}.
C7_EmptyOrMalformedOnlySelf ==
    (pc = "done" /\ Len(TargetGeohash) < GeohashLen) =>
        /\ queries = 0
        /\ zipcodes_map = (zipcode :> 0)

\* C7 amended: a target whose geohash is empty causes no prefix query and
\* gets exactly {target: 0}; a target whose geohash is not empty, truncated
\* or not, has the loop body run (at least one prefix query is issued).
C7_EmptyOnlySelf ==
    /\ (Searching /\ TargetGeohash = <<>>) =>
          /\ queries = 0
          /\ pc # "for"
          /\ zipcodes_map = (zipcode :> 0)
    /\ (pc = "done" /\ TargetGeohash # <<>>) => queries >= 1

\* A search for a target with an empty geohash has returned, although other
\* rows of the table lie within the radius.
C7_Witness ==
    /\ pc = "done"
    /\ TargetGeohash = <<>>
    /\ \E id \in DOMAIN Zipcodes \ {zipcode} :
          Distance(id, zipcode) <= MAX_NEARBY_ZIPCODE_RADIUS_KM

\* A measure of the work left: the prefix length first, then the matches of
\* the round still to consider.
Variant ==
    CASE pc = "while" -> Len(gh) * (NumZips + 2)
      [] pc = "for"   -> (Len(gh) - 1) * (NumZips + 2) + 1 + Cardinality(pending)
      [] OTHER        -> -1

\* C8: the search terminates. Every step of the call lowers the measure, a
\* round that ends without returning removes exactly the last character of
\* the prefix, and the queries of a call never outnumber the characters of
\* the target's geohash.
C8_Terminates ==
    [][/\ (pc \in {"while", "for"}) => (Variant' < Variant /\ Variant >= 0)
       /\ (pc = "for" /\ pc' = "while") =>
              (gh # <<>> /\ gh' = SubSeq(gh, 1, Len(gh) - 1))
       /\ (pc \in {"while", "for"}) =>
              /\ queries' <= Len(TargetGeohash)
              /\ (pc' = "while") => (queries' + Len(gh') = Len(TargetGeohash))
      ]_vars

\* A search has run through every prefix of a full geohash and has returned.
C8_Witness ==
    /\ pc = "done"
    /\ gh = <<>>
    /\ queries = GeohashLen

\* The candidates of the rounds before the current one: the target and the
\* entries that share with it a prefix longer than the current one.
EarlierRounds ==
    {id \in DOMAIN zipcodes_map :
        \/ id = zipcode
        \/ /\ Len(gh) < Len(TargetGeohash)
           /\ MatchesPrefix(Zipcodes[id], SubSeq(TargetGeohash, 1, Len(gh) + 1))}

\* The matches of the current round: the rows the query of the round returned.
RoundMatches ==
    {id \in DOMAIN Zipcodes : MatchesPrefix(Zipcodes[id], gh)} \ EarlierRounds

\* The matches of the current round that are in the candidate set.
RoundIncluded == RoundMatches \cap DOMAIN zipcodes_map

\* The search has returned from inside the for loop.
CutShort == pc = "done" /\ Size(zipcodes_map) >= MAX_NUM_NEARBY_ZIPCODES

\* C11: within a round the matches are considered in ascending order of
\* distance to the target (a considered match is no farther than any match
\* still to consider), the cap is tested after every considered match,
\* added or dropped, and the search returns exactly when it is reached.
\* When a round is cut short by the cap, no match of the round left out of
\* the result is strictly nearer than a match of the round that is in it,
\* and the queries issued are those of the prefixes down to the current
\* one: no shorter prefix is queried.
C11_AscendingAndCutShort ==
    [][/\ (pc = "while" /\ pc' = "for") => pending' = RoundMatches'
       /\ (pc = "for" /\ pending' # pending) =>
             /\ RoundMatches' = RoundMatches
             /\ \E id \in pending :
                   /\ pending' = pending \ {id}
                   /\ \A o \in pending' :
                         Distance(id, zipcode) <= Distance(o, zipcode)
                   /\ \A o \in RoundMatches \ pending :
                         Distance(o, zipcode) <= Distance(id, zipcode)
             /\ (pc' = "done") <=> (Size(zipcodes_map') >= MAX_NUM_NEARBY_ZIPCODES)
             /\ (pc' # "done") => pc' = "for"
       /\ CutShort' =>
             /\ gh' # <<>>
             /\ \A out \in RoundMatches' \ DOMAIN zipcodes_map' :
                   \A in \in RoundIncluded' :
                      Distance(out, zipcode') >= Distance(in, zipcode')
             /\ queries' = Len(TargetGeohash') - Len(gh') + 1
      ]_vars

\* A round was cut short by the cap after a match was added, and a match
\* strictly farther, though within the radius, was left out of the result.
C11_Witness ==
    /\ CutShort
    /\ \E in \in RoundIncluded, out \in pending :
          /\ Distance(in, zipcode) < Distance(out, zipcode)
          /\ Distance(out, zipcode) <= MAX_NEARBY_ZIPCODE_RADIUS_KM

\* The row shares at least the first geohash character with the target.
SharesFirstCharacter(id) ==
    /\ TargetGeohash # <<>>
    /\ Zipcodes[id].geohash # <<>>
    /\ Zipcodes[id].geohash[1] = TargetGeohash[1]

\* The rows within the radius that share the first character with the target.
NearbySharing ==
    {id \in DOMAIN Zipcodes :
        /\ SharesFirstCharacter(id)
        /\ Distance(id, zipcode) <= MAX_NEARBY_ZIPCODE_RADIUS_KM}

\* The search has returned with fewer entries than the cap.
Exhausted == pc = "done" /\ Size(zipcodes_map) < MAX_NUM_NEARBY_ZIPCODES

\* C12: a search that ends with fewer entries than the cap has exhausted the
\* prefix, and its result is exactly the target, at distance 0, plus every
\* row within the radius that shares at least the first geohash character
\* with the target. A row that shares no leading character with the target
\* is never in the candidate set, whatever its distance. Over a table that
\* holds only the target the result is exactly {target: 0}.
C12_ExhaustedResult ==
    /\ Exhausted =>
          /\ gh = <<>>
          /\ DOMAIN zipcodes_map = {zipcode} \cup NearbySharing
          /\ zipcodes_map[zipcode] = 0
    /\ Searching =>
          \A id \in DOMAIN zipcodes_map \ {zipcode} : SharesFirstCharacter(id)
    /\ (pc = "done" /\ DOMAIN Zipcodes = {zipcode}) =>
          zipcodes_map = (zipcode :> 0)

\* A search has exhausted the prefix and has returned a neighbour, while a
\* row within the radius that shares no leading character with the target
\* was left out.
C12_Witness ==
    /\ Exhausted
    /\ Size(zipcodes_map) >= 2
    /\ \E id \in DOMAIN Zipcodes \ DOMAIN zipcodes_map :
          /\ ~SharesFirstCharacter(id)
          /\ Distance(id, zipcode) <= MAX_NEARBY_ZIPCODE_RADIUS_KM

\* ------------------------------------------------------------------------
\* Properties of the aggregator
\* ------------------------------------------------------------------------

ReadingsOf(id) == {r \in Metrics : r.zipcode_id = id}

\* C5: the result has an entry for exactly the candidate ids that have a
\* reading and a zip-code row with a city; an id without a reading is left
\* out, no id outside the candidate set appears, and nothing is raised.
C5_ExactlyThoseWithReadings ==
    /\ hpc # "raised"
    /\ hpc = "reply" =>
          DOMAIN aqi_metrics =
              {id \in DOMAIN zipcodes_map :
                  /\ ReadingsOf(id) # {}
                  /\ id \in DOMAIN Zipcodes
                  /\ Zipcodes[id].city_id \in DOMAIN Cities}

\* The aggregator has returned an entry for one candidate and none for
\* another candidate, which has no reading.
C5_Witness ==
    /\ hpc = "reply"
    /\ aqi_metrics # <<>>
    /\ \E id \in DOMAIN zipcodes_map :
          /\ id \notin DOMAIN aqi_metrics
          /\ ReadingsOf(id) = {}

\* C6: every returned metric takes its value and its sensor count from one
\* reading of that zip code that no other reading of the zip code is later
\* than, and carries the distance the candidate set holds for the id.
C6_LatestReadingAndDistance ==
    hpc = "reply" =>
        \A id \in DOMAIN aqi_metrics :
            /\ \E r \in ReadingsOf(id) :
                  /\ aqi_metrics[id].average_pm25 = r.value
                  /\ aqi_metrics[id].num_readings = r.num_sensors
                  /\ \A o \in ReadingsOf(id) : o.timestamp <= r.timestamp
            /\ aqi_metrics[id].distance = zipcodes_map[id]

\* The aggregator has returned a metric for a zip code that also has an older
\* reading with another value, at a distance other than 0.
C6_Witness ==
    /\ hpc = "reply"
    /\ \E id \in DOMAIN aqi_metrics :
          /\ aqi_metrics[id].distance # 0
          /\ \E o \in ReadingsOf(id) : o.value # aqi_metrics[id].average_pm25

\* ------------------------------------------------------------------------
\* Properties of the ranker
\* ------------------------------------------------------------------------

\* The zip codes of the place lines of the message, in order.
RecommendedZips ==
    LET places == SelectSeq(message, LAMBDA l : l.kind = " - {} {}: {}")
    IN  [i \in 1..Len(places) |-> places[i].zipcode]

InputMetrics == {rank_input.metrics[i] : i \in DOMAIN rank_input.metrics}

MetricOfZip(z) == CHOOSE m \in InputMetrics : m.zipcode = z

\* Non-target metrics in a category strictly better than the cutoff.
StrictlyBetter ==
    {m \in InputMetrics :
        /\ m.zipcode # rank_input.zipcode
        /\ Pm25Level(m.average_pm25) < rank_input.pm25_cutoff}

\* (category, distance) of a is not after that of b.
NotAfter(a, b) ==
    \/ Pm25Level(a.average_pm25) < Pm25Level(b.average_pm25)
    \/ /\ Pm25Level(a.average_pm25) = Pm25Level(b.average_pm25)
       /\ a.distance <= b.distance

\* C3: the ranker returns at most 3 recommended zip codes, and never the
\* target's own zip code.
C3_AtMostThreeNeverTarget ==
    hpc = "recommended" =>
        /\ Len(RecommendedZips) <= 3
        /\ \A i \in DOMAIN RecommendedZips : RecommendedZips[i] # rank_input.zipcode

\* The ranker was given the target, itself below the cutoff, and more than 3
\* strictly better neighbours, and has returned 3 places.
C3_Witness ==
    /\ hpc = "recommended"
    /\ \E m \in InputMetrics :
          /\ m.zipcode = rank_input.zipcode
          /\ Pm25Level(m.average_pm25) < rank_input.pm25_cutoff
    /\ Cardinality(StrictlyBetter) >= 3
    /\ Len(RecommendedZips) = 3

\* C4: the recommended zip codes are the first 3 (all, when fewer) of the
\* strictly better non-target metrics in ascending (category, distance)
\* order: each is strictly better, none is listed twice, they are in order,
\* and no metric left out comes before one that is listed.
C4_FirstThreeByCategoryThenDistance ==
    hpc = "recommended" =>
        LET R == RecommendedZips
            n == Cardinality(StrictlyBetter)
        IN  /\ Len(R) = IF n < 3 THEN n ELSE 3
            /\ \A i \in DOMAIN R : \E m \in StrictlyBetter : m.zipcode = R[i]
            /\ \A i, j \in DOMAIN R : R[i] = R[j] => i = j
            /\ \A i, j \in DOMAIN R :
                  i < j => NotAfter(MetricOfZip(R[i]), MetricOfZip(R[j]))
            /\ \A m \in StrictlyBetter :
                  (\A i \in DOMAIN R : R[i] # m.zipcode) =>
                      \A i \in DOMAIN R : NotAfter(MetricOfZip(R[i]), m)

\* The ranker has put a farther place of a better category before a nearer
\* one, has ordered two places of one category by distance, and has left out
\* a neighbour that is not strictly better than the cutoff.
C4_Witness ==
    /\ hpc = "recommended"
    /\ \E i, j \in DOMAIN RecommendedZips :
          /\ i < j
          /\ Pm25Level(MetricOfZip(RecommendedZips[i]).average_pm25)
                < Pm25Level(MetricOfZip(RecommendedZips[j]).average_pm25)
          /\ MetricOfZip(RecommendedZips[i]).distance
                > MetricOfZip(RecommendedZips[j]).distance
    /\ \E i, j \in DOMAIN RecommendedZips :
          /\ i < j
          /\ Pm25Level(MetricOfZip(RecommendedZips[i]).average_pm25)
                = Pm25Level(MetricOfZip(RecommendedZips[j]).average_pm25)
          /\ MetricOfZip(RecommendedZips[i]).distance
                < MetricOfZip(RecommendedZips[j]).distance
    /\ \E m \in InputMetrics \ StrictlyBetter : m.zipcode # rank_input.zipcode

\* ------------------------------------------------------------------------
\* Properties of the handler
\* ------------------------------------------------------------------------

\* The row the request is about: the one with the zip code asked for, or the
\* client's last one when no zip code is given.
RequestedRow ==
    IF request.zipcode = None
    THEN client.last_requested_zipcode
    ELSE IF \E id \in DOMAIN Zipcodes : Zipcodes[id].zipcode = request.zipcode
         THEN CHOOSE id \in DOMAIN Zipcodes : Zipcodes[id].zipcode = request.zipcode
         ELSE None

\* The zip code asked for is unknown, or known without a reading of its own.
UnknownOrNoReading ==
    /\ request.zipcode # None
    /\ RequestedRow = None \/ ReadingsOf(RequestedRow) = {}

\* The reply reports the air quality of the zip code.
Successful ==
    /\ hpc = "returned"
    /\ RequestedRow # None
    /\ ReadingsOf(RequestedRow) # {}
    /\ message # <<>>
    /\ message[1].kind \in {"{} {} is {}{}.", "pm25_level.description"}

\* C9: for an unknown zip code, or a known one without a reading of its own,
\* handle returns the single "couldn't determine" message, raises nothing,
\* updates no subscription and logs no request; a subscription is updated
\* only by a successful reply without details, and a request is logged only
\* by a successful reply.
C9_OopsWithoutSideEffects ==
    /\ hpc # "raised"
    /\ (hpc = "returned" /\ UnknownOrNoReading) =>
          /\ message = <<OopsLine(request.zipcode)>>
          /\ client.subscriptions = <<>>
          /\ client.logged = <<>>
    /\ (hpc # "idle" /\ UnknownOrNoReading) =>
          /\ client.subscriptions = <<>>
          /\ client.logged = <<>>
    /\ client.subscriptions # <<>> =>
          /\ Successful
          /\ ~request.details
          /\ Len(client.subscriptions) = 1
    /\ client.logged # <<>> =>
          /\ Successful
          /\ client.logged = <<RequestedRow>>

\* A request with details for a known zip code without a reading of its own,
\* whose neighbour has one, was answered with the single message.
C9_Witness ==
    /\ hpc = "returned"
    /\ request.details
    /\ RequestedRow # None
    /\ ReadingsOf(RequestedRow) = {}
    /\ aqi_metrics # <<>>
    /\ message = <<OopsLine(request.zipcode)>>

\* ------------------------------------------------------------------------
\* Properties of the alerts
\* ------------------------------------------------------------------------

\* C10: a call of maybe_notify sends only when the zip code's pm25 differs
\* from last_pm25 and the local time is at or after 8:00 and before 21:00.
\* A call that declines returns False and leaves num_alerts_sent,
\* last_alert_sent_at and the events unchanged; a call that sends returns
\* True, adds exactly 1 to num_alerts_sent, sets last_alert_sent_at to the
\* current timestamp and records one ALERT event with the zip code and its
\* pm25.
C10_NotifyOnlyOnChangeInWindow ==
    [][alerts'.calls = alerts.calls + 1 =>
         LET sent == alerts'.events # alerts.events
                        \/ alerts'.num_alerts_sent # alerts.num_alerts_sent
                        \/ alerts'.last_alert_sent_at # alerts.last_alert_sent_at
             time == alerts'.hour * 60 + alerts'.minute
             declines == \/ alerts.pm25 = alerts.last_pm25
                         \/ time < 8 * 60
                         \/ time >= 21 * 60
         IN  /\ declines => ~sent
             /\ ~sent => alerts'.result = FALSE
             /\ sent =>
                   /\ alerts'.result = TRUE
                   /\ alerts'.num_alerts_sent = alerts.num_alerts_sent + 1
                   /\ alerts'.last_alert_sent_at = alerts'.timestamp
                   /\ alerts'.events =
                          Append(alerts.events,
                                 [type |-> "ALERT", zipcode |-> ZipcodeOf(1),
                                  pm25 |-> alerts.pm25])
      ]_vars

\* An alert went out at 20:59, after calls that declined.
C10_Witness ==
    /\ alerts.result = TRUE
    /\ alerts.hour = 20
    /\ alerts.minute = 59
    /\ alerts.calls = 3
    /\ alerts.num_alerts_sent = 1
    /\ Len(alerts.events) = 1

\* ------------------------------------------------------------------------
\* Properties of the integer preference
\* ------------------------------------------------------------------------

BothGiven == pref._min_value # PyNone /\ pref._max_value # PyNone

\* C14: when min_value and max_value are both given, __init__ raises
\* RuntimeError if and only if min_value exceeds max_value; with min_value
\* below max_value the preference is constructed without error.
C14_RaisesIffMinExceedsMax ==
    (pref.init # NotCalled /\ BothGiven) =>
        /\ (pref.init = Raised("RuntimeError"))
              <=> (pref._min_value.value > pref._max_value.value)
        /\ (pref._min_value.value < pref._max_value.value)
              => pref.init = Returned(0)

\* ------------------------------------------------------------------------
\* Properties of the overrides
\* ------------------------------------------------------------------------

\* The open blocks that were entered with an override for the name.
BlocksNaming(name) ==
    {i \in DOMAIN registry.blocks : name \in DOMAIN registry.blocks[i]}

\* The override of the innermost of them.
InnermostOverride(name) ==
    LET i == CHOOSE j \in BlocksNaming(name) : \A k \in BlocksNaming(name) : k <= j
    IN  registry.blocks[i][name]

\* The stored value, validated, or the default when nothing is stored.
StoredOrDefault(name) ==
    IF registry.preferences[name] = PyNone
    THEN Returned(_prefs[name].default)
    ELSE validate(_prefs[name], registry.preferences[name])

====
